---- MODULE Spec2Model ----
(***************************************************************************)
(* MinecraftModsLocalizer: the batch translation pipeline.                 *)
(*                                                                         *)
(* Texts are sequences of one-character strings.  The pipeline modelled    *)
(* here is translate_from_jar (src/src/jar.py) from the point where the    *)
(* targets have been collected: prepare_translation (src/src/prepare.py)   *)
(* splits the texts in chunks, drives every chunk through                  *)
(* translate_with_chatgpt (src/src/chatgpt.py) inside the bounded retry    *)
(* loop, and the caller writes the resolved and the unresolved document.   *)
(***************************************************************************)
EXTENDS Integers, Sequences, FiniteSets, TLC

\* ------------------------------------------------------------------ bounds
\* Largest number of (key, text) units collected for one run.
MaxUnits == 3
\* Largest configured chunk size.
MaxChunk == 3
\* Largest number of newline-separated lines in one backend answer.
MaxRespLines == 2
\* Largest number of entries written in one source document.
MaxEntries == 2
\* Largest number of source documents one run collects from.
MaxDocs == 2
\* Largest number of units of a run over the three map-mode entry points.
MaxModeUnits == 2
\* Largest number of quoted strings in the description block of a quest file.
MaxStrings == 2
\* Largest number of characters of a quests JSON file.
MaxFileLen == 4
\* Largest number of units of a run that is followed by a second run.
MaxRerunUnits == 2
\* Largest number of units of a run whose calls take time.
MaxTimedUnits == 2
\* Largest number of units of a run followed to its end.
MaxLiveUnits == 2
\* Largest number of units of a run over texts that hold newlines.
MaxNewlineUnits == 2
\* Number of units of a run in which a text comes back in a later chunk.
MaxRepeatUnits == 4
\* Largest number of parts split_file makes of the file of lines.
MaxParts == 3
\* Largest number of lines in a part.
MaxPartLines == 2
\* Books a jar holds under patchouli_books, and entries of a jar.
MaxBooks == 1
MaxJarItems == 3

\* -------------------------------------------------------- program constants
MAX_ATTEMPTS == 5
\* The seconds prepare_translation gives the client as its timeout.
TIMEOUT == 60 * 3

\* ------------------------------------------------------------- characters
NL == "\n"
QUOTE == "\""
BACKSLASH == "\\"
\* The characters str.strip() removes that occur in the modelled texts.
Whitespace == {" ", "\t", NL}

\* The original texts a run can collect: an empty value and two different
\* visible texts.
Texts == {<< >>, <<"a">>, <<"b">>}

\* The newline-free lines the backend can put in an answer: an empty line
\* and a visible one that holds a quote.
BackendLines == {<< >>, <<"x", QUOTE>>}

Min(a, b) == IF a < b THEN a ELSE b

\* ------------------------------------------------------- text conversions
\* "sep".join(lines)
RECURSIVE Join(_, _)
Join(lines, sep) ==
    IF lines = << >> THEN << >>
    ELSE IF Len(lines) = 1 THEN lines[1]
    ELSE lines[1] \o sep \o Join(Tail(lines), sep)

\* Position of the first newline of text, 0 when it has none.
RECURSIVE FirstNewline(_, _)
FirstNewline(text, i) ==
    IF i > Len(text) THEN 0
    ELSE IF text[i] = NL THEN i
    ELSE FirstNewline(text, i + 1)

\* str.splitlines(): the pieces between newlines; a trailing newline opens
\* no further piece and the empty text has no line.
RECURSIVE SplitLines(_)
SplitLines(text) ==
    IF text = << >> THEN << >>
    ELSE LET i == FirstNewline(text, 1) IN
         IF i = 0 THEN <<text>>
         ELSE <<SubSeq(text, 1, i - 1)>> \o SplitLines(SubSeq(text, i + 1, Len(text)))

\* text.replace('\n', '')
RemoveNewlines(text) == SelectSeq(text, LAMBDA c : c # NL)

\* re.sub(r'(?<!\\)"', r'\\"', line): a quote that no backslash precedes
\* gets one.
RECURSIVE EscapeFrom(_, _)
EscapeFrom(line, i) ==
    IF i > Len(line) THEN << >>
    ELSE (IF line[i] = QUOTE /\ ~(i > 1 /\ line[i - 1] = BACKSLASH)
          THEN <<BACKSLASH, QUOTE>>
          ELSE <<line[i]>>) \o EscapeFrom(line, i + 1)

EscapeQuotes(line) == EscapeFrom(line, 1)

\* item.strip() is the empty string
IsBlank(item) == \A i \in 1..Len(item) : item[i] \in Whitespace

\* [item for item in lines if item.strip()]
NonBlank(lines) == SelectSeq(lines, LAMBDA item : ~IsBlank(item))

\* ------------------------------------------------------------- the chunker
\* Slip: the slice taken from the element after its start.
Slice_FromNext(big_list, i, j) == SubSeq(big_list, i + 2, Min(j, Len(big_list)))

\* big_list[i:j] with 0-based i, j as Python slices them.
Slice(big_list, i, j) == SubSeq(big_list, i + 1, Min(j, Len(big_list)))

\* Slip: the range runs up to len(big_list) inclusively.
RECURSIVE SplitFrom_Inclusive(_, _, _)
SplitFrom_Inclusive(big_list, size, i) ==
    IF i > Len(big_list) THEN << >>
    ELSE <<Slice(big_list, i, i + size)>> \o SplitFrom_Inclusive(big_list, size, i + size)

\* The loop of split_list: for i in range(0, len(big_list), size).
RECURSIVE SplitFrom(_, _, _)
SplitFrom(big_list, size, i) ==
    IF i >= Len(big_list) THEN << >>
    ELSE <<Slice(big_list, i, i + size)>> \o SplitFrom(big_list, size, i + size)

split_list(big_list, size) == SplitFrom(big_list, size, 0)

\* The chunks put one after the other.
RECURSIVE Concat(_)
Concat(lists) ==
    IF lists = << >> THEN << >> ELSE lists[1] \o Concat(Tail(lists))

\* ---------------------------------------------------- the translation client
\* What the backend call can end in: an exception (network, authentication,
\* a message without content), an answer without choices, or a text.
BackendOutcomes ==
    {[kind |-> "error"], [kind |-> "nochoices"]}
    \cup {[kind |-> "ok", text |-> Join(ls, <<NL>>)] :
            ls \in UNION {[1..n -> BackendLines] : n \in 1..MaxRespLines}}

\* Slip: the answer is split in lines for a request of one line too.
translate_with_chatgpt_SplitsAlways(request, outcome) ==
    IF outcome.kind = "ok"
    THEN LET result == SplitLines(outcome.text)
         IN [i \in 1..Len(result) |-> EscapeQuotes(result[i])]
    ELSE << >>

\* translate_with_chatgpt: the list it returns for a request and an outcome
\* of the backend call.
translate_with_chatgpt(request, outcome) ==
    IF outcome.kind = "ok"
    THEN LET result == IF Len(request) > 1
                       THEN SplitLines(outcome.text)
                       ELSE <<RemoveNewlines(outcome.text)>>
         IN [i \in 1..Len(result) |-> EscapeQuotes(result[i])]
    ELSE << >>

\* line.replace('\\n', ''): every backslash followed by the letter n goes.
RECURSIVE RemoveEscapedNewlines(_)
RemoveEscapedNewlines(line) ==
    IF line = << >> THEN << >>
    ELSE IF Len(line) >= 2 /\ line[1] = BACKSLASH /\ line[2] = "n"
    THEN RemoveEscapedNewlines(SubSeq(line, 3, Len(line)))
    ELSE <<line[1]>> \o RemoveEscapedNewlines(Tail(line))

\* The list the client binds to its own name split_target and sends: of a
\* request of several lines every line without its newlines, a request of
\* one line as it is.
request_lines(request) ==
    IF Len(request) > 1
    THEN [i \in DOMAIN request |-> RemoveNewlines(RemoveEscapedNewlines(request[i]))]
    ELSE request

\* Slip: a call that took longer than the timeout returns nothing.
client_call_Cancels(request, seconds, outcome, elapsed) ==
    [result |-> IF elapsed > seconds THEN << >>
                ELSE translate_with_chatgpt(request_lines(request), outcome),
     timeout_logged |-> elapsed > seconds,
     split_target |-> request]

\* Slip: the newlines are taken out of the caller's list itself,
\* split_target[:] = [...].
client_call_StripsInPlace(request, seconds, outcome, elapsed) ==
    [result |-> translate_with_chatgpt(request_lines(request), outcome),
     timeout_logged |-> outcome.kind = "error" /\ elapsed > seconds,
     split_target |-> request_lines(request)]

\* translate_with_chatgpt(split_target, timeout) for a backend call that
\* ends in outcome after elapsed seconds: the list returned, whether the
\* except branch logged that the timeout was reached, and the caller's list
\* after the call (the client rebinds its parameter to a new list and
\* leaves the list it was passed alone).
client_call(request, seconds, outcome, elapsed) ==
    [result |-> translate_with_chatgpt(request_lines(request), outcome),
     timeout_logged |-> outcome.kind = "error" /\ elapsed > seconds,
     split_target |-> request]

\* ---------------------------------------------------------- the retry loop
\* Slip: the loop condition does not look at the counter.
LoopContinues_Always(n) == TRUE

\* Slip: the comparison of the loop condition turned around.
LoopContinues_Inverted(n) == n > MAX_ATTEMPTS

\* Slip: the loop bound taken inclusively.
LoopContinues_Inclusive(n) == n <= MAX_ATTEMPTS

\* The condition of the while loop on the attempt counter.
LoopContinues(n) == n < MAX_ATTEMPTS

\* The exact comparison of prepare_translation.
ExactMatch(input, output) == Len(input) = Len(output)

\* The fallback comparison on the lines that are not blank.
NonBlankMatch(input, output) == Len(NonBlank(input)) = Len(NonBlank(output))

\* Slip: every answer passes, whatever its line counts.
Accepts_Always(input, output) == TRUE

\* Slip: an answer that is merely not longer than the request passes.
Accepts_NotLonger(input, output) ==
    Len(output) <= Len(input) \/ NonBlankMatch(input, output)

\* The attempt leaves the while loop through one of the two break statements.
Accepts(input, output) == ExactMatch(input, output) \/ NonBlankMatch(input, output)

\* The pairs zip(input, output) yields.
Zip(input, output) == [i \in 1..Min(Len(input), Len(output)) |-> <<input[i], output[i]>>]

\* Slip: result_map.setdefault(key, value), the first binding of a text stays.
RECURSIVE Merge_KeepFirst(_, _)
Merge_KeepFirst(map, pairs) ==
    IF pairs = << >> THEN map
    ELSE LET key == pairs[1][1]
             value == pairs[1][2]
         IN Merge_KeepFirst([k \in DOMAIN map \cup {key} |->
                               IF k \in DOMAIN map THEN map[k] ELSE value],
                            Tail(pairs))

\* The insertion order of the keys of result_map after the same loop: a key
\* that is new goes to the end, a key already there keeps its place.
RECURSIVE MergeOrder(_, _)
MergeOrder(order, pairs) ==
    IF pairs = << >> THEN order
    ELSE LET key == pairs[1][1]
         IN MergeOrder(IF \E i \in DOMAIN order : order[i] = key
                       THEN order ELSE Append(order, key),
                       Tail(pairs))

\* for key, value in pairs: result_map[key] = value
RECURSIVE Merge(_, _)
Merge(map, pairs) ==
    IF pairs = << >> THEN map
    ELSE LET key == pairs[1][1]
             value == pairs[1][2]
         IN Merge([k \in DOMAIN map \cup {key} |-> IF k = key THEN value ELSE map[k]],
                  Tail(pairs))

\* ------------------------------------------------------------ the extractor
\* The prefix of the keys extract_map_from_json leaves out.
COMMENT_MARKER == <<"_", "c", "o", "m", "m", "e", "n", "t">>

\* The keys a source document can hold: two plain ones, the marker itself,
\* the marker with a suffix, and a proper prefix of the marker.
ExtractKeys ==
    {<<"k">>, <<"j">>, COMMENT_MARKER, COMMENT_MARKER \o <<"1">>,
     SubSeq(COMMENT_MARKER, 1, Len(COMMENT_MARKER) - 1)}

\* The values a source document can hold.  A string is the sequence of its
\* code points: "H", one code point next to or on a bound of the three
\* ranges of the pattern, and a string with such a code point behind an "H".
\* A number stands for every JSON value that is not a string.
ExtractValues ==
    {[type |-> "str", text |-> t] :
        t \in {<<72>>, <<12351>>, <<12352>>, <<72, 12543>>, <<12544>>, <<13312>>,
               <<19904>>, <<40959>>, <<40960>>}}
    \cup {[type |-> "num", text |-> << >>]}

\* key.startswith(prefix)
StartsWith(key, prefix) ==
    Len(key) >= Len(prefix) /\ SubSeq(key, 1, Len(prefix)) = prefix

\* Slip: the second range of the pattern left out.
InTargetScript_TwoRanges(c) ==
    (12352 <= c /\ c <= 12543) \/ (19968 <= c /\ c <= 40959)

\* The character class [\u3040-\u30FF\u3400-\u4DBF\u4E00-\u9FFF].
InTargetScript(c) ==
    \/ 12352 <= c /\ c <= 12543
    \/ 13312 <= c /\ c <= 19903
    \/ 19968 <= c /\ c <= 40959

\* re.search(pattern, value) finds a match in a string value.
HasTargetScript(text) == \E i \in DOMAIN text : InTargetScript(text[i])

\* A dict is the sequence of its (key, value) items in insertion order.
\* dict[key] = value: a new key goes to the end, a key already there keeps
\* its place and takes the new value.
DictSet(dict, key, value) ==
    IF \E i \in DOMAIN dict : dict[i][1] = key
    THEN [i \in DOMAIN dict |-> IF dict[i][1] = key THEN <<key, value>> ELSE dict[i]]
    ELSE Append(dict, <<key, value>>)

\* dict.update(items), also what json.load makes of the entries of an object.
RECURSIVE DictUpdate(_, _)
DictUpdate(dict, items) ==
    IF items = << >> THEN dict
    ELSE DictUpdate(DictSet(dict, items[1][1], items[1][2]), Tail(items))

\* The source documents: a path without a file, a file that is no JSON, a
\* JSON value that is no object, and an object with its entries as written.
Documents ==
    {[kind |-> k, entries |-> << >>] : k \in {"missing", "invalid_json", "not_object"}}
    \cup {[kind |-> "object", entries |-> e] :
            e \in UNION {[1..n -> ExtractKeys \X ExtractValues] : n \in 0..MaxEntries}}

\* The for loop of extract_map_from_json over content.items(): the items
\* kept so far, or the exception re.search raises on a value that is no
\* string (the comment test is made first and short-circuits).
RECURSIVE CollectFrom(_, _)
CollectFrom(content, collected_map) ==
    IF content = << >> THEN [raised |-> FALSE, map |-> collected_map]
    ELSE LET key == content[1][1]
             value == content[1][2]
         IN IF StartsWith(key, COMMENT_MARKER)
            THEN CollectFrom(Tail(content), collected_map)
            ELSE IF value.type # "str"
            THEN [raised |-> TRUE, map |-> << >>]
            ELSE IF HasTargetScript(value.text)
            THEN CollectFrom(Tail(content), collected_map)
            ELSE CollectFrom(Tail(content), DictSet(collected_map, key, value))

\* extract_map_from_json: the map it returns, or the exception that leaves
\* it.  Only json.JSONDecodeError is caught.
extract_map_from_json(doc) ==
    IF doc.kind \in {"missing", "invalid_json"} THEN [raised |-> FALSE, map |-> << >>]
    ELSE IF doc.kind = "not_object" THEN [raised |-> TRUE, map |-> << >>]
    ELSE CollectFrom(DictUpdate(<< >>, doc.entries), << >>)

\* --------------------------------------------------------------- the state
VARIABLES
    CHUNK_SIZE,               \* provider.CHUNK_SIZE as configured for the run
    targets,                  \* the collected units: key i holds text targets[i]
    pc,                       \* position in translate_from_jar / prepare_translation
    split_targets,            \* the chunks
    index,                    \* number of the chunk being processed
    split_target,             \* the chunk being processed
    attempts,                 \* the attempt counter of the while loop
    translated_split_target,  \* the list the last client call returned
    result_map,               \* original text -> translated line
    outcome_kind,             \* how the last backend call ended
    calls,                    \* calls made to the client for the current chunk
    called,                   \* the chunks the client was called for
    bound,                    \* per chunk: positions its accepted attempt merged
    ended,                    \* per chunk: "accepted", "exhausted" or "open"
    files,                    \* the output documents written so far
    jars,                     \* per jar of MODS_DIR: the language file read from it
    jar_index,                \* number of jars translate_from_jar has processed
    collected,                \* the dict targets translate_from_jar collects
    mode,                     \* the entry point of the run
    key_order,                \* the keys of result_map in insertion order
    snbt_file,                \* the quest file on disk
    content,                  \* the text translate_ftbquests_from_snbt holds
    subst_index,              \* items of translated_map already substituted
    backup,                   \* the copy translate_ftbquests makes of the quest file
    json_file,                \* the file en_us.json of the quests on disk
    keys,                     \* the key of every unit: keys[i] belongs to targets[i]
    run,                      \* 1 in a first run, 2 in a run over its unresolved items
    prior,                    \* the resolved document the run before this one wrote
    timeout,                  \* the timeout prepare_translation passes to the client
    timeout_logged,           \* the last call logged "Timeout reached"
    elapsed_time,             \* the seconds the last call took
    chunks,                   \* translate_batch: the parts split_file wrote, as lines
    part,                     \* translate_batch: number of parts the for loop is through
    translated_parts_keys,    \* translate_batch: the original lines read so far
    translated_parts_value,   \* translate_batch: the translated lines read so far
    mod_name,                 \* process_jar_file: what get_mod_name_from_jar returned
    jar_path,                 \* patchouli: the archive on disk at jar_path
    jar,                      \* patchouli: the entries of the archive opened for reading
    new_jar,                  \* patchouli: the file jar_path + '.new', if there is one
    modification_needed,      \* patchouli: the flag of process_jar_file
    infolist_index,           \* patchouli: entries the for loop is through
    error_logged              \* patchouli: the except clause logged the error

\* The variables of translate_batch.
batch_vars == <<chunks, part, translated_parts_keys, translated_parts_value>>

\* A run that does not go through translate_batch.
NoBatch ==
    /\ chunks = << >>
    /\ part = 0
    /\ translated_parts_keys = << >>
    /\ translated_parts_value = << >>

\* The variables of patchouli.process_jar_file.
patchouli_vars == <<mod_name, jar_path, jar, new_jar, modification_needed,
                    infolist_index, error_logged>>

\* A run that does not go through patchouli.process_jar_file.
NoPatchouli ==
    /\ mod_name = "None"
    /\ jar_path = << >>
    /\ jar = << >>
    /\ new_jar = << >>
    /\ modification_needed = FALSE
    /\ infolist_index = 0
    /\ error_logged = FALSE

vars == <<CHUNK_SIZE, targets, pc, split_targets, index, split_target, attempts,
          translated_split_target, result_map, outcome_kind, calls, called, bound,
          ended, files, jars, jar_index, collected, mode, batch_vars, patchouli_vars, key_order, snbt_file,
          content, subst_index, backup, json_file, keys, run, prior, timeout,
          timeout_logged, elapsed_time>>

\* The variables of prepare_translation.
loop_vars == <<split_targets, index, split_target, attempts, translated_split_target,
               result_map, outcome_kind, calls, called, bound, ended, key_order,
               timeout_logged, elapsed_time>>

\* What a run is started with besides its targets.
run_vars == <<keys, run, prior, timeout>>

\* A first run with the timeout of prepare_translation.
FirstRun ==
    /\ keys = [i \in DOMAIN targets |-> i]
    /\ run = 1
    /\ prior = << >>
    /\ timeout = TIMEOUT

\* The variables of translate_ftbquests_from_snbt.
snbt_vars == <<snbt_file, content, subst_index, backup, json_file>>

\* A run that is not over a quest file.
NoQuestFile ==
    /\ snbt_file = << >>
    /\ content = << >>
    /\ subst_index = 0
    /\ backup = << >>
    /\ json_file = << >>

\* The variables of the collecting loop of translate_from_jar.
extract_vars == <<jars, jar_index, collected>>

EmptyMap == [k \in {} |-> << >>]

\* A run modelled from the point where the targets have been collected.
Collected ==
    /\ jars = << >>
    /\ jar_index = 0
    /\ collected = << >>

Init ==
    /\ NoBatch
    /\ NoPatchouli
    /\ Collected
    /\ NoQuestFile
    /\ timeout_logged = FALSE
    /\ elapsed_time = 0
    /\ key_order = << >>
    /\ mode = "jar"
    /\ CHUNK_SIZE \in 1..MaxChunk
    /\ targets \in UNION {[1..n -> Texts] : n \in 0..MaxUnits}
    /\ pc = "start"
    /\ split_targets = << >>
    /\ index = 0
    /\ split_target = << >>
    /\ attempts = 0
    /\ translated_split_target = << >>
    /\ result_map = EmptyMap
    /\ outcome_kind = "none"
    /\ calls = 0
    /\ called = {}
    /\ bound = << >>
    /\ ended = << >>
    /\ files = EmptyMap
    /\ FirstRun

\* prepare_translation up to the for loop: split the texts, empty result map.
Split ==
    /\ pc = "start"
    /\ split_targets' = split_list(targets, CHUNK_SIZE)
    /\ result_map' = EmptyMap
    /\ key_order' = << >>
    /\ bound' = [c \in 1..Len(split_targets') |-> {}]
    /\ ended' = [c \in 1..Len(split_targets') |-> "open"]
    /\ pc' = "for"
    /\ UNCHANGED <<CHUNK_SIZE, targets, index, split_target, attempts,
                   translated_split_target, outcome_kind, calls, called, files>>
    /\ UNCHANGED <<extract_vars, run_vars, mode, batch_vars, patchouli_vars, snbt_vars, timeout_logged, elapsed_time>>

\* Slip: the for loop walks the chunks from the last to the first.
NextChunk_Backwards ==
    /\ pc = "for"
    /\ index < Len(split_targets)
    /\ index' = index + 1
    /\ split_target' = split_targets[Len(split_targets) - index]
    /\ attempts' = 0
    /\ calls' = 0
    /\ pc' = IF LoopContinues(0) THEN "while" ELSE "for"
    /\ UNCHANGED <<CHUNK_SIZE, targets, split_targets, translated_split_target,
                   result_map, outcome_kind, called, bound, ended, files, key_order>>
    /\ UNCHANGED <<extract_vars, run_vars, mode, batch_vars, patchouli_vars, snbt_vars, timeout_logged, elapsed_time>>

\* Slip: the attempt counter is set once before the for loop, the next chunk
\* goes on with what the chunk before it left.
NextChunk_KeepsCounter ==
    /\ pc = "for"
    /\ index < Len(split_targets)
    /\ index' = index + 1
    /\ split_target' = split_targets[index + 1]
    /\ attempts' = attempts
    /\ calls' = 0
    /\ pc' = IF LoopContinues(attempts) THEN "while" ELSE "for"
    /\ UNCHANGED <<CHUNK_SIZE, targets, split_targets, translated_split_target,
                   result_map, outcome_kind, called, bound, ended, files, key_order>>
    /\ UNCHANGED <<extract_vars, run_vars, mode, batch_vars, patchouli_vars, snbt_vars, timeout_logged, elapsed_time>>

\* The for loop takes the next chunk and resets the attempt counter.
NextChunk ==
    /\ pc = "for"
    /\ index < Len(split_targets)
    /\ index' = index + 1
    /\ split_target' = split_targets[index + 1]
    /\ attempts' = 0
    /\ calls' = 0
    /\ pc' = IF LoopContinues(0) THEN "while" ELSE "for"
    /\ UNCHANGED <<CHUNK_SIZE, targets, split_targets, translated_split_target,
                   result_map, outcome_kind, called, bound, ended, files, key_order>>
    /\ UNCHANGED <<extract_vars, run_vars, mode, batch_vars, patchouli_vars, snbt_vars, timeout_logged, elapsed_time>>

\* Slip: the merge is not followed by a break, the loop goes on with the
\* chunk it has accepted.
AttemptWithin_NoBreak(elapsed_times) ==
    /\ pc = "while"
    /\ LoopContinues(attempts)
    /\ \E outcome \in BackendOutcomes, elapsed \in elapsed_times :
         \E returned \in {client_call(split_target, timeout, outcome, elapsed)} :
         \E output \in {returned.result} :
         \E pairs \in {Zip(returned.split_target, output)} :
            /\ translated_split_target' = output
            /\ split_target' = returned.split_target
            /\ timeout_logged' = returned.timeout_logged
            /\ elapsed_time' = elapsed
            /\ outcome_kind' = outcome.kind
            /\ calls' = calls + 1
            /\ called' = called \cup {index}
            /\ IF Accepts(returned.split_target, output)
               THEN /\ result_map' = Merge(result_map, pairs)
                    /\ key_order' = MergeOrder(key_order, pairs)
                    /\ bound' = [bound EXCEPT ![index] = DOMAIN pairs]
                    /\ ended' = [ended EXCEPT ![index] = "accepted"]
                    /\ attempts' = attempts + 1
                    /\ pc' = IF LoopContinues(attempts + 1) THEN "while" ELSE "for"
               ELSE /\ result_map' = result_map
                    /\ key_order' = key_order
                    /\ bound' = bound
                    /\ attempts' = attempts + 1
                    /\ ended' = [ended EXCEPT ![index] =
                                   IF LoopContinues(attempts + 1) THEN "open" ELSE "exhausted"]
                    /\ pc' = IF LoopContinues(attempts + 1) THEN "while" ELSE "for"
    /\ UNCHANGED <<CHUNK_SIZE, targets, split_targets, index, files>>
    /\ UNCHANGED <<extract_vars, run_vars, mode, batch_vars, patchouli_vars, snbt_vars>>

\* One iteration of the while loop: one call to the client, the two
\* comparisons, and either the merge and break or the counter increment.
AttemptWithin(elapsed_times) ==
    /\ pc = "while"
    /\ LoopContinues(attempts)
    /\ \E outcome \in BackendOutcomes, elapsed \in elapsed_times :
         \E returned \in {client_call(split_target, timeout, outcome, elapsed)} :
         \E output \in {returned.result} :
         \E pairs \in {Zip(returned.split_target, output)} :
            /\ translated_split_target' = output
            /\ split_target' = returned.split_target
            /\ timeout_logged' = returned.timeout_logged
            /\ elapsed_time' = elapsed
            /\ outcome_kind' = outcome.kind
            /\ calls' = calls + 1
            /\ called' = called \cup {index}
            /\ IF Accepts(returned.split_target, output)
               THEN /\ result_map' = Merge(result_map, pairs)
                    /\ key_order' = MergeOrder(key_order, pairs)
                    /\ bound' = [bound EXCEPT ![index] = DOMAIN pairs]
                    /\ ended' = [ended EXCEPT ![index] = "accepted"]
                    /\ attempts' = attempts
                    /\ pc' = "for"
               ELSE /\ result_map' = result_map
                    /\ key_order' = key_order
                    /\ bound' = bound
                    /\ attempts' = attempts + 1
                    /\ ended' = [ended EXCEPT ![index] =
                                   IF LoopContinues(attempts + 1) THEN "open" ELSE "exhausted"]
                    /\ pc' = IF LoopContinues(attempts + 1) THEN "while" ELSE "for"
    /\ UNCHANGED <<CHUNK_SIZE, targets, split_targets, index, files>>
    /\ UNCHANGED <<extract_vars, run_vars, mode, batch_vars, patchouli_vars, snbt_vars>>

\* The iteration in a run whose calls all end without a measurable delay.
Attempt == AttemptWithin({0})

\* The original text targets holds under a key.
TextOf(key) == targets[CHOOSE j \in DOMAIN targets : keys[j] = key]

\* Slip: translated_map.get(original, original) for every key.
translated_targets_WithDefault(map) ==
    [k \in {keys[j] : j \in DOMAIN targets} |->
        IF TextOf(k) \in DOMAIN map THEN map[TextOf(k)] ELSE TextOf(k)]

\* The keys translate_from_jar puts in translated_targets.
translated_targets(map) ==
    [k \in {keys[j] : j \in {i \in DOMAIN targets : targets[i] \in DOMAIN map}} |->
        map[TextOf(k)]]

\* Slip: a text with an empty translation counted as untranslated too.
untranslated_items_OrEmpty(map) ==
    [k \in {keys[j] : j \in {i \in DOMAIN targets :
                               targets[i] \notin DOMAIN map \/ map[targets[i]] = << >>}} |->
        TextOf(k)]

\* The keys translate_from_jar puts in untranslated_items.
untranslated_items(map) ==
    [k \in {keys[j] : j \in {i \in DOMAIN targets : targets[i] \notin DOMAIN map}} |->
        TextOf(k)]

\* dict(sorted(items)): the entries in ascending key order.
RECURSIVE SortedItems(_)
SortedItems(items) ==
    IF DOMAIN items = {} THEN << >>
    ELSE LET k == CHOOSE x \in DOMAIN items : \A y \in DOMAIN items : x <= y
         IN <<<<k, items[k]>>>> \o SortedItems([j \in DOMAIN items \ {k} |-> items[j]])

\* prepare_translation returns and translate_from_jar writes both documents.
WriteOutputs ==
    /\ mode = "jar"
    /\ pc = "for"
    /\ index = Len(split_targets)
    /\ files' = [f \in {"ja_jp.json", "error/mod_ja_jp.json"} |->
                   IF f = "ja_jp.json"
                   THEN SortedItems(translated_targets(result_map))
                   ELSE SortedItems(untranslated_items(result_map))]
    /\ pc' = "done"
    /\ UNCHANGED <<CHUNK_SIZE, targets, split_targets, index, split_target, attempts,
                   translated_split_target, result_map, outcome_kind, calls, called,
                   bound, ended, key_order>>
    /\ UNCHANGED <<extract_vars, run_vars, mode, batch_vars, patchouli_vars, snbt_vars, timeout_logged, elapsed_time>>

Next == Split \/ NextChunk \/ Attempt \/ WriteOutputs

\* ------------------------------------------- collecting the source documents
\* The documents of a run with several jars: the three kinds that hold no
\* map, the empty object, and objects of one plain entry.
SmallDocuments ==
    {d \in Documents :
        d.kind = "object" =>
            /\ Len(d.entries) <= 1
            /\ \A i \in DOMAIN d.entries :
                  /\ d.entries[i][1] \in {<<"k">>, <<"j">>}
                  /\ d.entries[i][2].text \in {<< >>, <<72>>, <<12352>>}}

\* One jar with any document, or several jars with small documents.
JarLists ==
    {<<d>> : d \in Documents}
    \cup UNION {[1..n -> SmallDocuments] : n \in 2..MaxDocs}

\* The state of the retry loop before prepare_translation is called.
LoopAtRest ==
    /\ split_targets = << >>
    /\ index = 0
    /\ split_target = << >>
    /\ attempts = 0
    /\ translated_split_target = << >>
    /\ result_map = EmptyMap
    /\ outcome_kind = "none"
    /\ calls = 0
    /\ called = {}
    /\ bound = << >>
    /\ ended = << >>
    /\ files = EmptyMap
    /\ key_order = << >>
    /\ timeout_logged = FALSE
    /\ elapsed_time = 0

InitExtract ==
    /\ NoBatch
    /\ NoPatchouli
    /\ mode = "jar"
    /\ NoQuestFile
    /\ jars \in JarLists
    /\ jar_index = 0
    /\ collected = << >>
    /\ pc = "collect"
    /\ CHUNK_SIZE = 1
    /\ targets = << >>
    /\ LoopAtRest
    /\ FirstRun

\* One pass of the loop over MODS_DIR: process_jar_file returns the map
\* extract_map_from_json makes of the jar's language file and
\* targets.update merges it; an exception leaves translate_from_jar.
ProcessJar ==
    /\ pc = "collect"
    /\ jar_index < Len(jars)
    /\ LET extracted == extract_map_from_json(jars[jar_index + 1])
       IN IF extracted.raised
          THEN /\ pc' = "raised"
               /\ collected' = collected
          ELSE /\ pc' = "collect"
               /\ collected' = DictUpdate(collected, extracted.map)
    /\ jar_index' = jar_index + 1
    /\ UNCHANGED <<CHUNK_SIZE, targets, split_targets, index, split_target, attempts,
                   translated_split_target, result_map, outcome_kind, calls, called,
                   bound, ended, files, jars, mode, batch_vars, patchouli_vars, key_order, snbt_vars, run_vars,
                   timeout_logged, elapsed_time>>

\* The loop over MODS_DIR is over: list(targets.values()) goes to
\* prepare_translation.
CollectionDone ==
    /\ pc = "collect"
    /\ jar_index = Len(jars)
    /\ pc' = "collected"
    /\ UNCHANGED <<CHUNK_SIZE, targets, split_targets, index, split_target, attempts,
                   translated_split_target, result_map, outcome_kind, calls, called,
                   bound, ended, files, jars, jar_index, collected, mode, batch_vars, patchouli_vars, key_order,
                   snbt_vars, run_vars, timeout_logged, elapsed_time>>

NextExtract == ProcessJar \/ CollectionDone

SpecExtract == InitExtract /\ [][NextExtract]_vars

Spec == Init /\ [][Next]_vars

\* ------------------------------------------ the three map-mode entry points
\* translate_from_jar, translate_ftbquests_from_json and
\* translate_betterquesting_from_json.
Modes == {"jar", "ftbquests", "betterquesting"}

InitModes ==
    /\ NoBatch
    /\ NoPatchouli
    /\ Collected
    /\ NoQuestFile
    /\ mode \in Modes
    /\ CHUNK_SIZE \in 1..MaxChunk
    /\ targets \in UNION {[1..n -> Texts] : n \in 0..MaxModeUnits}
    /\ pc = "start"
    /\ LoopAtRest
    /\ FirstRun

\* Slip: the file of the untranslated items is written only when there are
\* any.
ftbquests_outputs_SkipEmpty(map) ==
    LET resolved == SortedItems(translated_targets(map))
        unresolved == SortedItems(untranslated_items(map))
        names == {"kubejs/assets/kubejs/lang/ja_jp.json",
                  "kubejs/assets/ftbquests/lang/ja_jp.json"}
                 \cup (IF unresolved = << >> THEN {} ELSE {"error/quests_en_us.json"})
    IN [f \in names |-> IF f = "error/quests_en_us.json" THEN unresolved ELSE resolved]

\* The three files translate_ftbquests_from_json writes.
ftbquests_outputs(map) ==
    LET resolved == SortedItems(translated_targets(map))
        unresolved == SortedItems(untranslated_items(map))
    IN [f \in {"kubejs/assets/kubejs/lang/ja_jp.json",
               "kubejs/assets/ftbquests/lang/ja_jp.json",
               "error/quests_en_us.json"} |->
          IF f = "error/quests_en_us.json" THEN unresolved ELSE resolved]

\* The one file translate_betterquesting_from_json writes: a key=value line
\* for every translated item, then one for every untranslated item with its
\* original text.  Both dicts are in the order of targets, which is the
\* order of the keys.
betterquesting_outputs(map) ==
    [f \in {"resources/betterquesting/lang/ja_jp.lang"} |->
        SortedItems(translated_targets(map)) \o SortedItems(untranslated_items(map))]

\* prepare_translation returns and translate_ftbquests_from_json writes.
WriteQuestOutputs ==
    /\ mode = "ftbquests"
    /\ pc = "for"
    /\ index = Len(split_targets)
    /\ files' = ftbquests_outputs(result_map)
    /\ pc' = "done"
    /\ UNCHANGED <<CHUNK_SIZE, targets, loop_vars, extract_vars, run_vars, mode, batch_vars, patchouli_vars, snbt_vars>>

\* prepare_translation returns and translate_betterquesting_from_json writes.
WriteLangOutput ==
    /\ mode = "betterquesting"
    /\ pc = "for"
    /\ index = Len(split_targets)
    /\ files' = betterquesting_outputs(result_map)
    /\ pc' = "done"
    /\ UNCHANGED <<CHUNK_SIZE, targets, loop_vars, extract_vars, run_vars, mode, batch_vars, patchouli_vars, snbt_vars>>

NextModes ==
    Split \/ NextChunk \/ Attempt \/ WriteOutputs \/ WriteQuestOutputs \/ WriteLangOutput

SpecModes == InitModes /\ [][NextModes]_vars

\* ------------------------------------------------ literal substitution mode
\* In the text of a quest file one symbol stands for "description: [" and
\* one for "title: ".
DESCRIPTION == "D"
TITLE == "T"
BRACKET == "]"

\* The strings of a quest file: two plain ones and one that holds an escaped
\* quote.
SnbtTexts == {<<"a">>, <<"b">>, <<"a", BACKSLASH, QUOTE, "b">>}

\* f'"{text}"'
Quoted(text) == <<QUOTE>> \o text \o <<QUOTE>>

\* The quest files: a title line or none, then a description block of
\* 0..MaxStrings quoted strings.
QuestFiles ==
    {title \o <<DESCRIPTION>>
           \o Join([i \in DOMAIN strings |-> Quoted(strings[i])], <<" ">>)
           \o <<BRACKET>> :
        title \in {<< >>, <<TITLE>> \o Quoted(<<"b">>) \o <<NL>>},
        strings \in UNION {[1..n -> SnbtTexts] : n \in 0..MaxStrings}}

\* text.find(sub, i): the first position from i on where sub stands, 0 when
\* there is none.
RECURSIVE FindFrom(_, _, _)
FindFrom(text, sub, i) ==
    IF i + Len(sub) - 1 > Len(text) THEN 0
    ELSE IF SubSeq(text, i, i + Len(sub) - 1) = sub THEN i
    ELSE FindFrom(text, sub, i + 1)

\* Slip: the count argument left out, every occurrence is replaced.
RECURSIVE ReplaceFirst_All(_, _, _)
ReplaceFirst_All(text, old, new) ==
    LET i == FindFrom(text, old, 1)
    IN IF i = 0 THEN text
       ELSE SubSeq(text, 1, i - 1) \o new
            \o ReplaceFirst_All(SubSeq(text, i + Len(old), Len(text)), old, new)

\* text.replace(old, new, 1)
ReplaceFirst(text, old, new) ==
    LET i == FindFrom(text, old, 1)
    IN IF i = 0 THEN text
       ELSE SubSeq(text, 1, i - 1) \o new \o SubSeq(text, i + Len(old), Len(text))

\* The whitespace \s* takes off both ends of the description group.
RECURSIVE Strip(_)
Strip(text) ==
    IF text = << >> THEN text
    ELSE IF text[1] \in Whitespace THEN Strip(Tail(text))
    ELSE IF text[Len(text)] \in Whitespace THEN Strip(SubSeq(text, 1, Len(text) - 1))
    ELSE text

\* re.findall(description_pattern, content): the groups between
\* "description: [" and the next "]".
RECURSIVE DescriptionMatches(_, _)
DescriptionMatches(text, i) ==
    LET d == FindFrom(text, <<DESCRIPTION>>, i)
        e == IF d = 0 THEN 0 ELSE FindFrom(text, <<BRACKET>>, d + 1)
    IN IF e = 0 THEN << >>
       ELSE <<Strip(SubSeq(text, d + 1, e - 1))>> \o DescriptionMatches(text, e + 1)

\* The first quote from q on that no backslash precedes, 0 when the line or
\* the text ends before one.
RECURSIVE ClosingQuote(_, _)
ClosingQuote(text, q) ==
    IF q > Len(text) THEN 0
    ELSE IF text[q] = NL THEN 0
    ELSE IF text[q] = QUOTE /\ text[q - 1] # BACKSLASH THEN q
    ELSE ClosingQuote(text, q + 1)

\* re.findall(r'(?<!\\)"(.*?)(?<!\\)"', match)
RECURSIVE InnerMatches(_, _)
InnerMatches(text, p) ==
    IF p > Len(text) THEN << >>
    ELSE IF text[p] = QUOTE /\ ~(p > 1 /\ text[p - 1] = BACKSLASH)
    THEN LET q == ClosingQuote(text, p + 1)
         IN IF q = 0 THEN InnerMatches(text, p + 1)
            ELSE <<SubSeq(text, p + 1, q - 1)>> \o InnerMatches(text, q + 1)
    ELSE InnerMatches(text, p + 1)

\* The first quote from q on, 0 when the line or the text ends before one.
RECURSIVE NextQuote(_, _)
NextQuote(text, q) ==
    IF q > Len(text) THEN 0
    ELSE IF text[q] = NL THEN 0
    ELSE IF text[q] = QUOTE THEN q
    ELSE NextQuote(text, q + 1)

\* re.findall(title_and_subtitle_pattern, content): the second groups.
RECURSIVE TitleMatches(_, _)
TitleMatches(text, i) ==
    LET t == FindFrom(text, <<TITLE, QUOTE>>, i)
        q == IF t = 0 THEN 0 ELSE NextQuote(text, t + 2)
    IN IF t = 0 THEN << >>
       ELSE IF q = 0 THEN TitleMatches(text, t + 1)
       ELSE <<SubSeq(text, t + 2, q - 1)>> \o TitleMatches(text, q + 1)

\* The inner matches of all description groups, one after the other.
RECURSIVE AllInnerMatches(_)
AllInnerMatches(matches) ==
    IF matches = << >> THEN << >>
    ELSE InnerMatches(matches[1], 1) \o AllInnerMatches(Tail(matches))

\* extracted_strings: the non-empty strings of the description blocks, then
\* the non-empty titles.
extracted_strings(text) ==
    SelectSeq(AllInnerMatches(DescriptionMatches(text, 1)), LAMBDA m : m # << >>)
    \o SelectSeq(TitleMatches(text, 1), LAMBDA m : m # << >>)

InitSnbt ==
    /\ NoBatch
    /\ NoPatchouli
    /\ Collected
    /\ LoopAtRest
    /\ mode = "snbt"
    /\ CHUNK_SIZE \in 1..MaxChunk
    /\ snbt_file \in QuestFiles
    /\ content = << >>
    /\ subst_index = 0
    /\ backup = << >>
    /\ json_file = << >>
    /\ targets = << >>
    /\ pc = "backup"
    /\ FirstRun

\* Slip: translate_ftbquests goes on to the translation without the copy.
BackupQuestFile_NoCopy ==
    /\ mode = "snbt"
    /\ pc = "backup"
    /\ backup' = backup
    /\ pc' = "read"
    /\ UNCHANGED <<CHUNK_SIZE, targets, loop_vars, files, extract_vars, run_vars, mode, batch_vars, patchouli_vars, snbt_file,
                   content, subst_index, json_file>>

\* translate_ftbquests copies the quest file to the backup directory.
BackupQuestFile ==
    /\ mode = "snbt"
    /\ pc = "backup"
    /\ backup' = snbt_file
    /\ pc' = "read"
    /\ UNCHANGED <<CHUNK_SIZE, targets, loop_vars, files, extract_vars, run_vars, mode, batch_vars, patchouli_vars, snbt_file,
                   content, subst_index, json_file>>

\* translate_ftbquests_from_snbt up to the call of prepare_translation: it
\* reads the file, extracts the strings and returns when there are none.
ReadQuestFile ==
    /\ pc = "read"
    /\ content' = snbt_file
    /\ targets' = extracted_strings(snbt_file)
    /\ pc' = IF Len(targets') = 0 THEN "skipped" ELSE "start"
    /\ UNCHANGED <<CHUNK_SIZE, loop_vars, files, extract_vars, run_vars, mode, batch_vars, patchouli_vars, snbt_file,
                   subst_index, backup, json_file>>

\* prepare_translation has returned.
LoopReturned ==
    \/ pc = "for" /\ index = Len(split_targets)
    \/ pc = "replace"

\* One pass of the loop over translated_map.items().
Substitute ==
    /\ mode = "snbt"
    /\ LoopReturned
    /\ subst_index < Len(key_order)
    /\ LET original == key_order[subst_index + 1]
           translated == result_map[original]
       IN content' = ReplaceFirst(content, Quoted(original), Quoted(translated))
    /\ subst_index' = subst_index + 1
    /\ pc' = "replace"
    /\ UNCHANGED <<CHUNK_SIZE, targets, loop_vars, files, extract_vars, run_vars, mode, batch_vars, patchouli_vars, snbt_file,
                   backup, json_file>>

\* The loop is over and the content is written back to the quest file.
WriteBack ==
    /\ mode = "snbt"
    /\ LoopReturned
    /\ subst_index = Len(key_order)
    /\ snbt_file' = content
    /\ pc' = "done"
    /\ UNCHANGED <<CHUNK_SIZE, targets, loop_vars, files, extract_vars, run_vars, mode, batch_vars, patchouli_vars, content,
                   subst_index, backup, json_file>>

NextSnbt ==
    BackupQuestFile \/ ReadQuestFile \/ Split \/ NextChunk \/ Attempt \/ Substitute \/ WriteBack

SpecSnbt == InitSnbt /\ [][NextSnbt]_vars

\* ------------------------------------- substitution of any returned map
\* The lines the backend can answer for a string of a quest file: the text
\* of another string of the file, or a text no string of the file has.
SubstLines == {<<"a">>, <<"b">>, <<"x">>}

\* translate_ftbquests_from_snbt at the return of prepare_translation, in a
\* run with chunk size 1 in which the backend answered every string with one
\* line at the first attempt.
InitSubst ==
    /\ NoBatch
    /\ NoPatchouli
    /\ Collected
    /\ mode = "snbt"
    /\ CHUNK_SIZE = 1
    /\ snbt_file \in QuestFiles
    /\ backup = snbt_file
    /\ content = snbt_file
    /\ subst_index = 0
    /\ json_file = << >>
    /\ targets = extracted_strings(snbt_file)
    /\ Len(targets) > 0
    /\ split_targets = split_list(targets, CHUNK_SIZE)
    /\ index = Len(split_targets)
    /\ split_target = split_targets[index]
    /\ \E answers \in [DOMAIN targets -> SubstLines] :
          LET pairs == Zip(targets, answers)
          IN /\ result_map = Merge(EmptyMap, pairs)
             /\ key_order = MergeOrder(<< >>, pairs)
             /\ translated_split_target = <<answers[Len(targets)]>>
    /\ attempts = 0
    /\ outcome_kind = "ok"
    /\ calls = 1
    /\ called = DOMAIN split_targets
    /\ bound = [c \in DOMAIN split_targets |-> {1}]
    /\ ended = [c \in DOMAIN split_targets |-> "accepted"]
    /\ files = EmptyMap
    /\ timeout_logged = FALSE
    /\ elapsed_time = 0
    /\ pc = "for"
    /\ FirstRun

NextSubst == Substitute \/ WriteBack

SpecSubst == InitSubst /\ [][NextSubst]_vars

\* ------------------------------------------------- cleaning the quests JSON
\* The characters of a quests JSON file: the slash, the newline, the blank,
\* and one character that stands for everything else.
JsonChars == {"/", NL, " ", "k"}

JsonFiles == UNION {[1..n -> JsonChars] : n \in 0..MaxFileLen}

\* The first position from w on that holds no whitespace.
RECURSIVE SkipWhitespace(_, _)
SkipWhitespace(text, w) ==
    IF w <= Len(text) /\ text[w] \in Whitespace THEN SkipWhitespace(text, w + 1) ELSE w

\* The first position from e on that holds a newline or lies behind the text.
RECURSIVE LineEnd(_, _)
LineEnd(text, e) ==
    IF e <= Len(text) /\ text[e] # NL THEN LineEnd(text, e + 1) ELSE e

\* re.sub(comment_pattern, '', content) with the pattern ^\s*//.*$ in
\* MULTILINE mode: at the start of a line, whitespace (newlines included),
\* two slashes and the rest of that line are removed.
RECURSIVE RemoveComments(_, _)
RemoveComments(text, p) ==
    IF p > Len(text) THEN << >>
    ELSE LET w == SkipWhitespace(text, p)
         IN IF /\ (p = 1 \/ text[p - 1] = NL)
               /\ w + 1 <= Len(text)
               /\ text[w] = "/"
               /\ text[w + 1] = "/"
            THEN RemoveComments(text, LineEnd(text, w + 2))
            ELSE <<text[p]>> \o RemoveComments(text, p + 1)

\* The last newline among the positions from..to, 0 when there is none.
LastNewline(text, from, to) ==
    LET at == {l \in from..to : text[l] = NL}
    IN IF at = {} THEN 0 ELSE CHOOSE l \in at : \A m \in at : m <= l

\* re.sub(blank_lines_pattern, '\n', content) with the pattern \n\s*\n: a
\* newline, the whitespace behind it up to its last newline, become one
\* newline.
RECURSIVE RemoveBlankLines(_, _)
RemoveBlankLines(text, p) ==
    IF p > Len(text) THEN << >>
    ELSE LET l == IF text[p] = NL
                  THEN LastNewline(text, p + 1, SkipWhitespace(text, p + 1) - 1)
                  ELSE 0
         IN IF l # 0
            THEN <<NL>> \o RemoveBlankLines(text, l + 1)
            ELSE <<text[p]>> \o RemoveBlankLines(text, p + 1)

\* The content clean_json_file writes back for the content it read.
clean_json_file(text) == Strip(RemoveBlankLines(RemoveComments(text, 1), 1))

InitClean ==
    /\ NoBatch
    /\ NoPatchouli
    /\ Collected
    /\ LoopAtRest
    /\ mode = "ftbquests"
    /\ CHUNK_SIZE = 1
    /\ targets = << >>
    /\ snbt_file = << >>
    /\ content = << >>
    /\ subst_index = 0
    /\ backup = << >>
    /\ json_file \in JsonFiles
    /\ pc = "backup"
    /\ FirstRun

\* translate_ftbquests finds en_us.json and copies it to the backup
\* directory.
BackupJsonFile ==
    /\ mode = "ftbquests"
    /\ pc = "backup"
    /\ backup' = json_file
    /\ pc' = "clean"
    /\ UNCHANGED <<CHUNK_SIZE, targets, loop_vars, files, extract_vars, run_vars, mode, batch_vars, patchouli_vars, snbt_file,
                   content, subst_index, json_file>>

\* translate_ftbquests_from_json begins with clean_json_file(file_path),
\* which writes the cleaned content to the path it read.
CleanJsonFile ==
    /\ pc = "clean"
    /\ json_file' = clean_json_file(json_file)
    /\ pc' = "cleaned"
    /\ UNCHANGED <<CHUNK_SIZE, targets, loop_vars, files, extract_vars, run_vars, mode, batch_vars, patchouli_vars, snbt_file,
                   content, subst_index, backup>>

NextClean == BackupJsonFile \/ CleanJsonFile

SpecClean == InitClean /\ [][NextClean]_vars

\* ------------------------------------------------- a run over the residual
InitRerun ==
    /\ NoBatch
    /\ NoPatchouli
    /\ Collected
    /\ NoQuestFile
    /\ LoopAtRest
    /\ mode = "jar"
    /\ CHUNK_SIZE \in 1..MaxChunk
    /\ targets \in UNION {[1..n -> Texts] : n \in 0..MaxRerunUnits}
    /\ pc = "start"
    /\ FirstRun

\* The first run is over.  The pipeline is started again on a source
\* document that holds the entries of its unresolved-items file and nothing
\* else; the files the first run wrote are still on disk.
Rerun ==
    /\ mode = "jar"
    /\ pc = "done"
    /\ run = 1
    /\ run' = 2
    /\ prior' = files["ja_jp.json"]
    /\ keys' = [i \in DOMAIN files["error/mod_ja_jp.json"] |->
                  files["error/mod_ja_jp.json"][i][1]]
    /\ targets' = [i \in DOMAIN files["error/mod_ja_jp.json"] |->
                     files["error/mod_ja_jp.json"][i][2]]
    /\ split_targets' = << >>
    /\ index' = 0
    /\ split_target' = << >>
    /\ attempts' = 0
    /\ translated_split_target' = << >>
    /\ result_map' = EmptyMap
    /\ outcome_kind' = "none"
    /\ calls' = 0
    /\ called' = {}
    /\ bound' = << >>
    /\ ended' = << >>
    /\ key_order' = << >>
    /\ timeout_logged' = FALSE
    /\ elapsed_time' = 0
    /\ pc' = "start"
    /\ UNCHANGED <<CHUNK_SIZE, files, extract_vars, mode, batch_vars, patchouli_vars, snbt_vars, timeout>>

NextRerun == Split \/ NextChunk \/ Attempt \/ WriteOutputs \/ Rerun

SpecRerun == InitRerun /\ [][NextRerun]_vars

\* --------------------------------------------- runs under different timing
\* The timeouts a run can be given.
Timeouts == {0, TIMEOUT}

\* The seconds a call can take: a second, and a second more than the timeout
\* of prepare_translation.
ElapsedTimes == {1, TIMEOUT + 1}

InitTimeout ==
    /\ NoBatch
    /\ NoPatchouli
    /\ Collected
    /\ NoQuestFile
    /\ LoopAtRest
    /\ mode = "jar"
    \* a chunk size above the number of units gives the same single chunk
    /\ CHUNK_SIZE \in 1..MaxTimedUnits
    /\ targets \in UNION {[1..n -> Texts] : n \in 0..MaxTimedUnits}
    /\ keys = [i \in DOMAIN targets |-> i]
    /\ run = 1
    /\ prior = << >>
    /\ timeout \in Timeouts
    /\ pc = "start"

\* The iteration when the call can take any of the times.
TimedAttempt == AttemptWithin(ElapsedTimes)

NextTimeout == Split \/ NextChunk \/ TimedAttempt \/ WriteOutputs

SpecTimeout == InitTimeout /\ [][NextTimeout]_vars

\* ------------------------------------------------ texts that hold newlines
\* A plain text, the same text with a newline behind it, and a text that is
\* a backslash and the letter n.
NewlineTexts == {<<"a">>, <<"a", NL>>, <<BACKSLASH, "n">>}

InitNewlines ==
    /\ NoBatch
    /\ NoPatchouli
    /\ Collected
    /\ NoQuestFile
    /\ LoopAtRest
    /\ mode = "jar"
    \* a chunk size above the number of units gives the same single chunk
    /\ CHUNK_SIZE \in 1..MaxNewlineUnits
    /\ targets \in UNION {[1..n -> NewlineTexts] : n \in 0..MaxNewlineUnits}
    /\ pc = "start"
    /\ FirstRun

NextNewlines == Split \/ NextChunk \/ Attempt \/ WriteOutputs

SpecNewlines == InitNewlines /\ [][NextNewlines]_vars

\* ------------------------------------------------- texts that come back
\* Runs of two full chunks in which the first text comes back as the last.
InitRepeat ==
    /\ NoBatch
    /\ NoPatchouli
    /\ Collected
    /\ NoQuestFile
    /\ LoopAtRest
    /\ mode = "jar"
    /\ CHUNK_SIZE = MaxRepeatUnits \div 2
    /\ targets \in {t \in [1..MaxRepeatUnits -> Texts] : t[1] = t[MaxRepeatUnits]}
    /\ pc = "start"
    /\ FirstRun

NextRepeat == Split \/ NextChunk \/ Attempt \/ WriteOutputs

SpecRepeat == InitRepeat /\ [][NextRepeat]_vars

\* ------------------------------------------- the document-upload variant
\* The lines of the file translate_batch is given.
BatchLines == {<<"a">>, <<"b">>}

\* The parts split_file makes: every part holds at least one line.
Parts == UNION {[1..m -> BatchLines] : m \in 1..MaxPartLines}
PartLists == UNION {[1..n -> Parts] : n \in 0..MaxParts}

\* What the translation service makes of line i of part p, in a document
\* that comes back with a line for every line.
Translated(p, i) == <<p, i>>

\* The upload of a part is answered with a document id and key, or without.
UploadOutcomes == {"failed", "translated"}

\* translated_map as the callers pass it: the n-th key holds the n-th line
\* of the file.
translated_map == Concat(chunks)

\* The loop over zip(translated_parts_keys, translated_parts_value): every
\* key of translated_map whose value is the line before gets the line after.
RECURSIVE BatchMerge(_, _)
BatchMerge(map, pairs) ==
    IF pairs = << >> THEN map
    ELSE LET before == pairs[1][1]
             after == pairs[1][2]
             hit == {key \in DOMAIN translated_map : translated_map[key] = before}
         IN BatchMerge([key \in DOMAIN map \cup hit |->
                          IF key \in hit THEN after ELSE map[key]],
                       Tail(pairs))

InitBatch ==
    /\ NoPatchouli
    /\ Collected
    /\ NoQuestFile
    /\ LoopAtRest
    /\ mode = "batch"
    /\ CHUNK_SIZE = 1
    /\ targets = << >>
    /\ chunks \in PartLists
    /\ part = 0
    /\ translated_parts_keys = << >>
    /\ translated_parts_value = << >>
    /\ pc = "parts"
    /\ FirstRun

\* One pass of the for loop over the parts: the lines of the part go to
\* translated_parts_keys, the part is uploaded, and either the upload failed
\* and the loop continues, or the translated document is downloaded and its
\* lines go to translated_parts_value.
TranslatePart ==
    /\ mode = "batch"
    /\ pc = "parts"
    /\ part < Len(chunks)
    /\ part' = part + 1
    /\ translated_parts_keys' = translated_parts_keys \o chunks[part + 1]
    /\ \E upload \in UploadOutcomes :
          translated_parts_value' =
              IF upload = "failed" THEN translated_parts_value
              ELSE translated_parts_value
                   \o [i \in DOMAIN chunks[part + 1] |-> Translated(part + 1, i)]
    /\ UNCHANGED <<CHUNK_SIZE, targets, pc, loop_vars, files, extract_vars, run_vars, mode,
                   snbt_vars, chunks, patchouli_vars>>

\* The loop is over: result_map is built from the two lists.
FinishBatch ==
    /\ mode = "batch"
    /\ pc = "parts"
    /\ part = Len(chunks)
    /\ result_map' = BatchMerge(EmptyMap, Zip(translated_parts_keys, translated_parts_value))
    /\ pc' = "done"
    /\ UNCHANGED <<CHUNK_SIZE, targets, split_targets, index, split_target, attempts,
                   translated_split_target, outcome_kind, calls, called, bound, ended,
                   key_order, timeout_logged, elapsed_time, files, extract_vars, run_vars,
                   mode, snbt_vars, batch_vars, patchouli_vars>>

NextBatch == TranslatePart \/ FinishBatch

SpecBatch == InitBatch /\ [][NextBatch]_vars

\* ------------------------------------------------ patchouli.process_jar_file

\* An entry of a jar, by what process_jar_file asks of its name: book is the
\* directory under assets/<mod_name>/patchouli_books/ the name lies in (0: the
\* name does not start with that path), lang the language directory of the
\* book it lies in, dir whether it is a directory entry, json whether the name
\* ends with '.json'; bad tells that reading the entry raises BadZipFile.
OtherEntries ==
    {[book |-> 0, lang |-> "none", dir |-> FALSE, json |-> FALSE, bad |-> b] :
        b \in BOOLEAN}
BookEntries ==
    UNION {{[book |-> k, lang |-> "none", dir |-> TRUE, json |-> FALSE, bad |-> FALSE]}
           \cup {[book |-> k, lang |-> "none", dir |-> FALSE, json |-> TRUE, bad |-> b] :
                    b \in BOOLEAN}
           \cup {[book |-> k, lang |-> "en_us", dir |-> FALSE, json |-> j, bad |-> b] :
                    j \in BOOLEAN, b \in BOOLEAN}
           \cup {[book |-> k, lang |-> "ja_jp", dir |-> FALSE, json |-> TRUE, bad |-> b] :
                    b \in BOOLEAN} : k \in 1..MaxBooks}
JarEntries == OtherEntries \cup BookEntries

\* jar.infolist() of the jars of MODS_DIR
Archives == UNION {[1..n -> JarEntries] : n \in 0..MaxJarItems}

\* item.filename.startswith(base_path_in_jar)
InPatchouliBooks(entry) == entry.book > 0

\* {item.filename.split('/')[3] for item in jar.infolist() if ... item.is_dir()}
dirs_in_patchouli(archive) ==
    {archive[i].book : i \in {n \in DOMAIN archive :
                                 InPatchouliBooks(archive[n]) /\ archive[n].dir}}

\* any(en_us_path in item.filename for item in jar.infolist())
en_us_exists(archive, subdir) ==
    \E i \in DOMAIN archive : archive[i].book = subdir /\ archive[i].lang = "en_us"

\* any(ja_jp_path in item.filename for item in jar.infolist())
ja_jp_exists(archive, subdir) ==
    \E i \in DOMAIN archive : archive[i].book = subdir /\ archive[i].lang = "ja_jp"

\* The books the inner for loop sets modification_needed for.
BooksToTranslate(archive) ==
    {subdir \in dirs_in_patchouli(archive) :
        en_us_exists(archive, subdir) /\ ~ja_jp_exists(archive, subdir)}

\* The entry written under new_filename: the translated content of a json
\* file of en_us, under ja_jp.
TranslatedEntry(entry) ==
    [book |-> entry.book, lang |-> "ja_jp", dir |-> FALSE, json |-> TRUE, bad |-> FALSE]

\* What one pass of the for loop writes after the copy of the entry.
WrittenFor(archive, entry) ==
    IF /\ InPatchouliBooks(entry)
       /\ ~entry.dir
       /\ entry.book \in BooksToTranslate(archive)
       /\ entry.lang = "en_us"
       /\ entry.json
    THEN <<TranslatedEntry(entry)>>
    ELSE << >>

InitPatchouli ==
    /\ NoBatch
    /\ Collected
    /\ NoQuestFile
    /\ LoopAtRest
    /\ mode = "patchouli"
    /\ CHUNK_SIZE = 1
    /\ targets = << >>
    /\ mod_name \in {"None", "mod"}
    /\ jar_path \in Archives
    /\ jar = << >>
    /\ new_jar = << >>
    /\ modification_needed = FALSE
    /\ infolist_index = 0
    /\ error_logged = FALSE
    /\ pc = "process_jar_file"
    /\ FirstRun

\* get_mod_name_from_jar found no mod name: process_jar_file returns.
ReturnWithoutModName ==
    /\ mode = "patchouli"
    /\ pc = "process_jar_file"
    /\ mod_name = "None"
    /\ pc' = "done"
    /\ UNCHANGED <<CHUNK_SIZE, targets, loop_vars, files, extract_vars, run_vars, mode,
                   snbt_vars, batch_vars, patchouli_vars>>

\* The jar is opened, modification_needed is set to False and the file
\* jar_path + '.new' is created.
OpenJar ==
    /\ mode = "patchouli"
    /\ pc = "process_jar_file"
    /\ mod_name # "None"
    /\ jar' = jar_path
    /\ modification_needed' = FALSE
    /\ new_jar' = << << >> >>
    /\ infolist_index' = 0
    /\ pc' = "infolist"
    /\ UNCHANGED <<CHUNK_SIZE, targets, loop_vars, files, extract_vars, run_vars, mode,
                   snbt_vars, batch_vars, mod_name, jar_path, error_logged>>

\* One pass of the loop over jar.infolist(): the entry is read and copied,
\* the flag is set when a file of the books stands before a book that has
\* en_us and no ja_jp, and a json file of en_us of such a book is written
\* once more under ja_jp. An entry that cannot be read raises BadZipFile:
\* both archives are closed and the except clause logs the error.
CopyItem ==
    /\ mode = "patchouli"
    /\ pc = "infolist"
    /\ infolist_index < Len(jar)
    /\ LET entry == jar[infolist_index + 1]
       IN IF entry.bad
          THEN /\ error_logged' = TRUE
               /\ pc' = "finally"
               /\ UNCHANGED <<new_jar, modification_needed, infolist_index>>
          ELSE /\ new_jar' = <<new_jar[1] \o <<entry>> \o WrittenFor(jar, entry)>>
               /\ modification_needed' =
                     (\/ modification_needed
                      \/ /\ InPatchouliBooks(entry)
                         /\ ~entry.dir
                         /\ BooksToTranslate(jar) # {})
               /\ infolist_index' = infolist_index + 1
               /\ pc' = IF infolist_index + 1 < Len(jar) THEN "infolist" ELSE "finally"
               /\ UNCHANGED error_logged
    /\ UNCHANGED <<CHUNK_SIZE, targets, loop_vars, files, extract_vars, run_vars, mode,
                   snbt_vars, batch_vars, mod_name, jar_path, jar>>

\* A jar without entries: the loop has nothing to go through.
EmptyInfolist ==
    /\ mode = "patchouli"
    /\ pc = "infolist"
    /\ infolist_index = Len(jar)
    /\ pc' = "finally"
    /\ UNCHANGED <<CHUNK_SIZE, targets, loop_vars, files, extract_vars, run_vars, mode,
                   snbt_vars, batch_vars, patchouli_vars>>

\* The finally clause: os.replace(jar_path + '.new', jar_path) when the flag
\* is set, os.remove(jar_path + '.new') otherwise.
Finally ==
    /\ mode = "patchouli"
    /\ pc = "finally"
    /\ jar_path' = IF modification_needed THEN new_jar[1] ELSE jar_path
    /\ new_jar' = << >>
    /\ pc' = "done"
    /\ UNCHANGED <<CHUNK_SIZE, targets, loop_vars, files, extract_vars, run_vars, mode,
                   snbt_vars, batch_vars, mod_name, jar, modification_needed,
                   infolist_index, error_logged>>

NextPatchouli == ReturnWithoutModName \/ OpenJar \/ CopyItem \/ EmptyInfolist \/ Finally

SpecPatchouli == InitPatchouli /\ [][NextPatchouli]_vars

\* ------------------------------------------------- runs followed to their end
InitLive ==
    /\ NoBatch
    /\ NoPatchouli
    /\ Collected
    /\ NoQuestFile
    /\ LoopAtRest
    /\ mode = "jar"
    \* a chunk size above the number of units gives the same single chunk
    /\ CHUNK_SIZE \in 1..MaxLiveUnits
    /\ targets \in UNION {[1..n -> Texts] : n \in 0..MaxLiveUnits}
    /\ pc = "start"
    /\ FirstRun

NextLive == Split \/ NextChunk \/ Attempt \/ WriteOutputs

\* The same runs without an assumption on their progress.
SpecLoop == InitLive /\ [][NextLive]_vars

\* The interpreter runs the one thread of the program on, and the blocking
\* call to the client returns or raises: a step that can be taken is taken.
SpecLive == InitLive /\ [][NextLive]_vars /\ WF_vars(NextLive)

\* ------------------------------------------------------------------ claims
\* The last client call was made for the current chunk, so split_target and
\* translated_split_target are the request and the answer of one attempt.
Attempted == index >= 1 /\ calls >= 1

\* The loop is through with the current chunk.
ChunkOver == Attempted /\ pc # "while"

\* The two count comparisons, on the lists of one attempt.
SameLineCount == Len(split_target) = Len(translated_split_target)
SameNonBlankCount ==
    Len(NonBlank(split_target)) = Len(NonBlank(translated_split_target))

\* C1: an attempt changes the result map, or binds a position of its chunk,
\* only if its answer has as many lines as the request or as many non-blank
\* lines as the request has non-blank lines.
C1_MergeOnlyOnCountMatch ==
    [][(pc = "while" /\ (result_map' # result_map \/ bound'[index] # {}))
          => (Len(split_target) = Len(translated_split_target')
              \/ Len(NonBlank(split_target)) = Len(NonBlank(translated_split_target')))]_vars

\* C1 witness: an attempt merged under the non-blank fallback, the line
\* counts being different.
C1_Witness ==
    /\ ChunkOver
    /\ ~SameLineCount
    /\ SameNonBlankCount
    /\ bound[index] # {}
    /\ \E i \in bound[index] : split_target[i] \in DOMAIN result_map

\* C2: the client is never called more than MAX_ATTEMPTS times for a chunk,
\* and a chunk the loop leaves after an answer that fails both comparisons
\* (so that every attempt failed them) has had exactly MAX_ATTEMPTS calls and
\* has added nothing to the result map.
C2_MismatchedChunkGetsMaxAttempts ==
    /\ calls <= MAX_ATTEMPTS
    /\ (ChunkOver /\ ~SameLineCount /\ ~SameNonBlankCount)
          => /\ calls = MAX_ATTEMPTS
             /\ bound[index] = {}
             /\ (index = 1 => result_map = EmptyMap)

\* C2 witness: a chunk of two visible texts was left after five answers of
\* the wrong length.
C2_Witness ==
    /\ ChunkOver
    /\ ~SameLineCount /\ ~SameNonBlankCount
    /\ outcome_kind = "ok"
    /\ Len(split_target) = 2
    /\ calls = MAX_ATTEMPTS

\* The last position of a chunk that holds the text x.
LastPos(chunk, x) ==
    CHOOSE i \in DOMAIN chunk :
        chunk[i] = x /\ \A j \in DOMAIN chunk : chunk[j] = x => j <= i

\* C3 as stated: when the loop leaves a chunk whose last answer has the line
\* count of the request, the result map binds the text at every position i
\* to line i of the answer.
C3_PositionalAtEveryPosition ==
    (ChunkOver /\ SameLineCount)
      => \A i \in DOMAIN split_target :
            /\ split_target[i] \in DOMAIN result_map
            /\ result_map[split_target[i]] = translated_split_target[i]

\* C3 amended: when the loop leaves a chunk whose last answer has the line
\* count of the request, the result map binds the text at every position i
\* to the answer's line at the last position of the chunk that holds the
\* same text, which is line i wherever the text does not occur again.
C3_PositionalAtLastOccurrence ==
    (ChunkOver /\ SameLineCount)
      => \A i \in DOMAIN split_target :
            /\ split_target[i] \in DOMAIN result_map
            /\ result_map[split_target[i]]
                 = translated_split_target[LastPos(split_target, split_target[i])]

\* C3 witness: a chunk accepted by exact match holds the same text at two
\* positions, a different one at a third, and got different lines for the
\* two occurrences.
C3_Witness ==
    /\ ChunkOver
    /\ SameLineCount
    /\ ended[index] = "accepted"
    /\ Len(split_target) >= 2
    /\ split_target[1] = split_target[2]
    /\ translated_split_target[1] # translated_split_target[2]
    /\ result_map[split_target[1]] = translated_split_target[2]

\* C4 as stated: when a chunk is accepted on the non-blank comparison alone,
\* the j-th non-blank text is bound to the j-th non-blank line of the answer
\* and every blank text is bound to the empty translation.
C4_FallbackBindsNonBlankLines ==
    (ChunkOver /\ outcome_kind = "ok" /\ ~SameLineCount /\ SameNonBlankCount)
      => /\ \A j \in DOMAIN NonBlank(split_target) :
              /\ NonBlank(split_target)[j] \in DOMAIN result_map
              /\ result_map[NonBlank(split_target)[j]]
                   = NonBlank(translated_split_target)[j]
         /\ \A i \in DOMAIN split_target :
              IsBlank(split_target[i])
                => /\ split_target[i] \in DOMAIN result_map
                   /\ result_map[split_target[i]] = << >>

\* The texts of chunk c, and those its accepted attempt bound.
ChunkTexts(c) == {split_targets[c][p] : p \in DOMAIN split_targets[c]}
BoundTexts(c) == {split_targets[c][p] : p \in bound[c]}

\* C5 as stated: a chunk the loop is through with has bound the text of
\* every one of its units, or has bound nothing.
C5_NoPartialAcceptance ==
    \A c \in DOMAIN ended :
        ended[c] # "open" => (BoundTexts(c) = {} \/ BoundTexts(c) = ChunkTexts(c))

\* The two written documents and the keys a document holds.
Resolved == files["ja_jp.json"]
Unresolved == files["error/mod_ja_jp.json"]
KeysOf(doc) == {doc[i][1] : i \in DOMAIN doc}
Holds(doc, k, v) == \E i \in DOMAIN doc : doc[i] = <<k, v>>

\* C6: once both documents are written, every extracted key is in exactly
\* one of them, in the resolved one with the translation of its text or in
\* the unresolved one with its text; no document lists a key twice or holds
\* a key that was not extracted.
C6_ExactlyOneDocument ==
    pc = "done"
      => /\ \A k \in DOMAIN targets :
              \/ /\ k \in KeysOf(Resolved)
                 /\ k \notin KeysOf(Unresolved)
                 /\ targets[k] \in DOMAIN result_map
                 /\ Holds(Resolved, k, result_map[targets[k]])
              \/ /\ k \in KeysOf(Unresolved)
                 /\ k \notin KeysOf(Resolved)
                 /\ Holds(Unresolved, k, targets[k])
         /\ KeysOf(Resolved) \cup KeysOf(Unresolved) = DOMAIN targets
         /\ Len(Resolved) + Len(Unresolved) = Len(targets)

\* C6 witness: a run ended with keys in both documents, one of the resolved
\* keys holding an empty translation.
C6_Witness ==
    /\ pc = "done"
    /\ Resolved # << >>
    /\ Unresolved # << >>
    /\ \E i \in DOMAIN Resolved : Resolved[i][2] = << >>

\* The key of the unit at position p of chunk c.
KeyAt(c, p) == (c - 1) * CHUNK_SIZE + p

\* The texts bound by the accepted attempts of the chunks other than c.
BoundElsewhere(c) == UNION {BoundTexts(d) : d \in DOMAIN split_targets \ {c}}

\* C7 as stated: at the end of the run every unit of a chunk that used up
\* its attempts is in the unresolved document and not in the resolved one.
C7_ExhaustedChunkUnresolved ==
    pc = "done"
      => \A c \in DOMAIN ended :
            ended[c] = "exhausted"
              => \A p \in DOMAIN split_targets[c] :
                    /\ KeyAt(c, p) \in KeysOf(Unresolved)
                    /\ KeyAt(c, p) \notin KeysOf(Resolved)

\* C7 amended: at the end of the run every unit of a chunk that used up its
\* attempts is in the unresolved document and not in the resolved one,
\* unless the accepted attempt of another chunk bound the same text.
C7_ExhaustedChunkUnresolvedUnlessBoundElsewhere ==
    pc = "done"
      => \A c \in DOMAIN ended :
            ended[c] = "exhausted"
              => \A p \in DOMAIN split_targets[c] :
                    split_targets[c][p] \notin BoundElsewhere(c)
                      => /\ targets[KeyAt(c, p)] = split_targets[c][p]
                         /\ Holds(Unresolved, KeyAt(c, p), split_targets[c][p])
                         /\ KeyAt(c, p) \notin KeysOf(Resolved)

\* C7 witness: a run ended in which the first chunk used up its attempts,
\* a later chunk was accepted and bound a text, and a unit of the first
\* chunk is in the unresolved document.
C7_Witness ==
    /\ pc = "done"
    /\ Len(split_targets) >= 2
    /\ ended[1] = "exhausted"
    /\ \E d \in DOMAIN ended : ended[d] = "accepted" /\ BoundTexts(d) # {}
    /\ 1 \in KeysOf(Unresolved)

\* C8 as stated: after a backend call that failed, the attempt is counted,
\* the chunk is not accepted, and the loop stays with the chunk while
\* attempts are left.
C8_FailedCallIsRetried ==
    (Attempted /\ outcome_kind \in {"error", "nochoices"})
      => /\ ended[index] # "accepted"
         /\ attempts = calls
         /\ (calls < MAX_ATTEMPTS => pc = "while")

\* C9: the client is called for every chunk the loop has passed, and at the
\* end of the run for every chunk of the split.
C9_EveryChunkAttempted ==
    /\ pc = "for" => called = 1..index
    /\ pc = "done" => called = DOMAIN split_targets

\* C9 witness: a run ended in which the first chunk used up its attempts and
\* the client was called for a second chunk.
C9_Witness ==
    /\ pc = "done"
    /\ Len(split_targets) >= 2
    /\ ended[1] = "exhausted"
    /\ 2 \in called

\* C10: split_list returns ceil(N/C) chunks of 1 to C units each, all but
\* the last of C units, and none for an empty list.
C10_ChunkCountAndSizes ==
    pc # "start"
      => LET N == Len(targets)
             C == CHUNK_SIZE
             n == Len(split_targets)
         IN /\ n = (N + C - 1) \div C
            /\ \A c \in 1..n :
                  /\ Len(split_targets[c]) >= 1
                  /\ Len(split_targets[c]) <= C
                  /\ c < n => Len(split_targets[c]) = C
            /\ N = 0 => n = 0

\* C10 witness: a list was split in two chunks, the last one shorter than
\* the chunk size.
C10_Witness ==
    /\ pc # "start"
    /\ Len(split_targets) = 2
    /\ Len(split_targets[1]) = CHUNK_SIZE
    /\ Len(split_targets[2]) < CHUNK_SIZE

\* C11: the chunks split_list returns, concatenated in order, are exactly
\* the input sequence: no unit is dropped, duplicated or reordered.
C11_ChunksConcatenateToInput ==
    pc # "start" => Concat(split_targets) = targets

\* Several chunks, the last one shorter than the chunk size.
C11_Witness ==
    /\ pc # "start"
    /\ Len(split_targets) >= 2
    /\ Len(split_targets[Len(split_targets)]) < CHUNK_SIZE
    /\ \E i, j \in DOMAIN targets : targets[i] # targets[j]

\* The code points of the three ranges of the target script.
TargetScriptCodePoints == (12352..12543) \cup (13312..19903) \cup (19968..40959)

\* The key begins with the eight characters of the comment marker.
IsCommentKey(key) ==
    Len(key) >= 8 /\ \A i \in 1..8 : key[i] = COMMENT_MARKER[i]

\* The value the entries of a document give a key: the one written last.
SourceValue(entries, key) ==
    LET last == CHOOSE i \in DOMAIN entries :
                    /\ entries[i][1] = key
                    /\ \A j \in DOMAIN entries : entries[j][1] = key => j <= i
    IN entries[last][2]

\* The one document of the run has been read as an object without an
\* exception.
ExtractedOne ==
    /\ Len(jars) = 1
    /\ jar_index = 1
    /\ jars[1].kind = "object"
    /\ pc # "raised"

\* C12: the extracted map holds exactly the entries of the source map whose
\* key does not start with the comment marker and whose value holds no code
\* point of the target script, each with its source value, and no key twice.
C12_ExtractKeepsExactlySourceLanguageEntries ==
    ExtractedOne =>
        LET entries == jars[1].entries
            wanted == {k \in {entries[i][1] : i \in DOMAIN entries} :
                          /\ ~IsCommentKey(k)
                          /\ \A n \in DOMAIN SourceValue(entries, k).text :
                                SourceValue(entries, k).text[n] \notin TargetScriptCodePoints}
        IN /\ {collected[i][1] : i \in DOMAIN collected} = wanted
           /\ \A i \in DOMAIN collected :
                 collected[i][2] = SourceValue(entries, collected[i][1])
           /\ \A i, j \in DOMAIN collected : i # j => collected[i][1] # collected[j][1]

\* A document of two entries: one is kept, the other has a plain key and is
\* left out for a code point of the second range.
C12_Witness ==
    /\ ExtractedOne
    /\ Len(jars[1].entries) = 2
    /\ Len(collected) = 1
    /\ \E i \in DOMAIN jars[1].entries :
          /\ ~IsCommentKey(jars[1].entries[i][1])
          /\ jars[1].entries[i][2].text = <<13312>>
          /\ jars[1].entries[i][1] # collected[1][1]

\* The document cannot be read as a flat map from strings to strings.
Unprocessable(doc) ==
    \/ doc.kind # "object"
    \/ \E i \in DOMAIN doc.entries : doc.entries[i][2].type # "str"

\* C13: a document that cannot be read as a flat string map yields no
\* units and the run goes on with the other documents.
C13_UnprocessableDocumentIsSkipped ==
    \A i \in 1..jar_index :
        Unprocessable(jars[i]) =>
            /\ pc # "raised"
            /\ extract_map_from_json(jars[i]).map = << >>

\* The keys whose text the result map binds, and the other keys.
ResolvedKeys == {k \in DOMAIN targets : targets[k] \in DOMAIN result_map}
UnresolvedKeys == DOMAIN targets \ ResolvedKeys

\* A written document that holds every resolved key with its translation
\* and no other key.
IsResolvedDocument(doc) ==
    /\ KeysOf(doc) = ResolvedKeys
    /\ \A k \in ResolvedKeys : Holds(doc, k, result_map[targets[k]])

\* A written document that holds every unresolved key with its original
\* text and no other key.
IsUnresolvedDocument(doc) ==
    /\ KeysOf(doc) = UnresolvedKeys
    /\ \A k \in UnresolvedKeys : Holds(doc, k, targets[k])

\* Two different files, one with the resolved and one with the unresolved
\* items.
BothFilesWritten ==
    \E r, u \in DOMAIN files :
        /\ r # u
        /\ IsResolvedDocument(files[r])
        /\ IsUnresolvedDocument(files[u])

OccursAt(text, sub, i) ==
    /\ i >= 1
    /\ i + Len(sub) - 1 <= Len(text)
    /\ \A n \in 1..Len(sub) : text[i + n - 1] = sub[n]

\* The number of positions of text at which sub stands.
Occurrences(text, sub) == Cardinality({i \in 1..Len(text) : OccursAt(text, sub, i)})

\* C15: every pass of the substitution loop replaces exactly one occurrence
\* of the quoted original string, the first one in the document as it then
\* is, by the quoted translation; every other occurrence and all the rest of
\* the document stay as they are.
C15_FirstRemainingOccurrenceReplaced ==
    [][subst_index' = subst_index + 1 =>
         LET original == key_order[subst_index']
             old == <<QUOTE>> \o original \o <<QUOTE>>
             new == <<QUOTE>> \o result_map[original] \o <<QUOTE>>
         IN \E i \in 1..Len(content) :
               /\ OccursAt(content, old, i)
               /\ \A j \in 1..(i - 1) : ~OccursAt(content, old, j)
               /\ content' = SubSeq(content, 1, i - 1) \o new
                                \o SubSeq(content, i + Len(old), Len(content))]_vars

\* The substitution loop is over for a file that holds the same quoted
\* string twice: the first occurrence has been replaced and a later one is
\* still there.
C15_Witness ==
    /\ pc = "replace"
    /\ subst_index = Len(key_order)
    /\ \E text \in DOMAIN result_map :
          /\ Occurrences(backup, <<QUOTE>> \o text \o <<QUOTE>>) >= 2
          /\ Occurrences(content, <<QUOTE>> \o text \o <<QUOTE>>)
               = Occurrences(backup, <<QUOTE>> \o text \o <<QUOTE>>) - 1
          /\ result_map[text] # << >>

\* C16: a string that no accepted attempt bound is left untouched: the
\* written file holds its quoted form as often as the source file did.
C16_UnresolvedStringUntouched ==
    pc = "done" =>
        \A p \in DOMAIN targets :
            targets[p] \notin DOMAIN result_map =>
                Occurrences(snbt_file, <<QUOTE>> \o targets[p] \o <<QUOTE>>)
                  >= Occurrences(backup, <<QUOTE>> \o targets[p] \o <<QUOTE>>)

\* C17: map-mode processing leaves the source document as it was: once
\* translate_ftbquests_from_json has cleaned and read en_us.json, the file
\* has the content it had before the run, which the backup copy holds.
C17_SourceDocumentUnchanged ==
    pc = "cleaned" => json_file = backup

\* C18: a second run over the keys the first run left unresolved (there is
\* at least one) does not alter the keys the first run resolved: after the
\* second run the resolved document still holds each of them with the same
\* translation.
C18_ResolvedKeysSurviveRerun ==
    (run = 2 /\ pc = "done" /\ Len(targets) > 0) =>
        \A i \in DOMAIN prior : Holds(files["ja_jp.json"], prior[i][1], prior[i][2])

\* C19: the chunks are processed one after the other in extraction order:
\* every call to the client is made for the current chunk, which is the
\* index-th slice of the targets, when every earlier chunk has had all its
\* calls and no later chunk has had any.
C19_ChunksAttemptedInOrder ==
    [][calls' = calls + 1 =>
         /\ index' = index
         /\ called \in {1..index, 1..(index - 1)}
         /\ called' = 1..index
         /\ \A c \in 1..(index - 1) : ended[c] # "open"
         /\ split_target = SubSeq(targets, (index - 1) * CHUNK_SIZE + 1,
                                  Min(index * CHUNK_SIZE, Len(targets)))]_vars

\* The second call for the second chunk, after a first chunk that used up
\* all its attempts.
C19_Witness ==
    /\ index = 2
    /\ calls = 2
    /\ called = {1, 2}
    /\ ended[1] = "exhausted"
    /\ split_targets[1] # split_targets[2]

\* C20: the timeout is advisory.  For the request at hand and every backend
\* outcome, the client returns under every timeout and after every elapsed
\* time the list it returns at once under the timeout of prepare_translation,
\* so runs that differ in them only make the same attempts and build the same
\* result map; the timeout is logged for failed calls only, and a response
\* that came back late is compared like any other.
C20_TimeoutIsAdvisory ==
    /\ pc = "while" =>
          \A outcome \in BackendOutcomes :
              \A t \in Timeouts, e \in ElapsedTimes :
                  client_call(split_target, t, outcome, e).result
                    = client_call(split_target, TIMEOUT, outcome, 0).result
    /\ timeout_logged => outcome_kind = "error" /\ translated_split_target = << >>
    /\ (Attempted /\ outcome_kind = "ok" /\ pc # "while") =>
          (ended[index] = "accepted") = Accepts(split_target, translated_split_target)

\* A response that came back after the timeout has been merged.
C20_Witness ==
    /\ Attempted
    /\ elapsed_time > timeout
    /\ outcome_kind = "ok"
    /\ ended[index] = "accepted"
    /\ \E text \in DOMAIN result_map : result_map[text] # << >>

\* C21: an attempt whose answer fails both count comparisons leaves the
\* result map, the order of its keys and the bound positions as they were
\* and does not accept the chunk; an attempt whose answer passes one of them
\* accepts the chunk at that attempt (the calls made are the rejected
\* attempts and this one), keeps every earlier binding of a text it does not
\* bind, and binds texts of the chunk to lines of this answer only.
C21_RejectedAttemptChangesNothing ==
    [][(pc = "while" /\ calls' = calls + 1) =>
         LET output == translated_split_target'
         IN IF Len(split_target) = Len(output)
               \/ Len(NonBlank(split_target)) = Len(NonBlank(output))
            THEN /\ ended'[index] = "accepted"
                 /\ calls' = attempts + 1
                 /\ calls' <= MAX_ATTEMPTS
                 /\ DOMAIN result_map \subseteq DOMAIN result_map'
                 /\ \A text \in DOMAIN result_map' :
                       \/ /\ text \in DOMAIN result_map
                          /\ result_map'[text] = result_map[text]
                       \/ \E i \in DOMAIN split_target \cap DOMAIN output :
                             /\ split_target[i] = text
                             /\ result_map'[text] = output[i]
            ELSE /\ result_map' = result_map
                 /\ key_order' = key_order
                 /\ bound' = bound
                 /\ ended'[index] # "accepted"]_vars

\* C21 witness: the second chunk was accepted on its last attempt, after
\* four rejected ones that found the binding of the first chunk in the
\* result map and left it there.
C21_Witness ==
    /\ index = 2
    /\ ended[1] = "accepted"
    /\ ended[2] = "accepted"
    /\ calls = MAX_ATTEMPTS
    /\ outcome_kind = "ok"
    /\ bound[1] # {} /\ bound[2] # {}
    /\ split_targets[1][1] # split_targets[2][1]
    /\ result_map[split_targets[1][1]] # result_map[split_targets[2][1]]

\* C22: the client is called for a chunk only while the chunk is open, every
\* call before the accepted one having been rejected and counted; the call
\* that is accepted is the last one for the chunk, so the calls of an
\* accepted chunk number its rejected attempts plus one, and the calls of a
\* chunk that is never accepted number MAX_ATTEMPTS.  The count of calls
\* changes only by a call or by the step to the next chunk.
C22_NoCallAfterAcceptance ==
    [][/\ calls' = calls + 1 =>
            /\ pc = "while"
            /\ ended[index] = "open"
            /\ attempts = calls
            /\ ended'[index] = "accepted" => (pc' = "for" /\ calls' = attempts' + 1)
            /\ ended'[index] = "exhausted" => (pc' = "for" /\ calls' = MAX_ATTEMPTS)
            /\ ended'[index] = "open" => (pc' = "while" /\ calls' < MAX_ATTEMPTS)
       /\ calls' # calls => (calls' = calls + 1 \/ (index' = index + 1 /\ calls' = 0))
       /\ (index >= 1 /\ index' = index) =>
            (ended[index] # "open" => ended'[index] = ended[index])]_vars

\* C22 witness: the run is over, and its last chunk, which came after
\* another one, was accepted on its third attempt and called three times.
C22_Witness ==
    /\ pc = "done"
    /\ index = 2
    /\ ended[index] = "accepted"
    /\ attempts = 2
    /\ calls = 3

\* C23: whatever the backend answers, the run comes to its end with a result
\* map; the client is never called more than MAX_ATTEMPTS times for a chunk,
\* every chunk the loop has left was called at least once and has ended, and
\* every step that calls the client takes one backend outcome and counts one
\* call.
C23_TerminatesWithinBudget ==
    /\ <>(pc = "done")
    /\ [](/\ calls <= MAX_ATTEMPTS
          /\ (pc \in {"for", "done"} /\ index >= 1) => (calls >= 1 /\ ended[index] # "open")
          /\ pc = "done" => /\ called = DOMAIN split_targets
                            /\ \A c \in DOMAIN ended : ended[c] # "open")
    /\ [][outcome_kind' # outcome_kind \/ translated_split_target' # translated_split_target
            => calls' = calls + 1]_vars

\* C23 witness: a run has ended in which one chunk was accepted and another
\* used up its attempts, the last call having failed.
C23_Witness ==
    /\ pc = "done"
    /\ \E c \in DOMAIN ended : ended[c] = "accepted"
    /\ \E c \in DOMAIN ended : ended[c] = "exhausted"
    /\ outcome_kind = "error"
    /\ calls = MAX_ATTEMPTS

\* C24: the step to a chunk sets the attempt counter and the count of calls
\* to zero and enters the while loop, whatever the chunks before it used;
\* and a chunk that ends unresolved has had MAX_ATTEMPTS calls of its own.
C24_AttemptBudgetPerChunk ==
    /\ [][index' # index =>
             /\ index' = index + 1
             /\ attempts' = 0
             /\ calls' = 0
             /\ pc' = "while"]_vars
    /\ [](\A c \in DOMAIN ended :
             (ended[c] = "exhausted" /\ c = index) => calls = MAX_ATTEMPTS)

\* C24 witness: the first chunk used up its attempts, and the second chunk
\* was given five calls of its own and was accepted on the last.
C24_Witness ==
    /\ index = 2
    /\ ended[1] = "exhausted"
    /\ ended[2] = "accepted"
    /\ attempts = MAX_ATTEMPTS - 1
    /\ calls = MAX_ATTEMPTS

\* C25: the quest file is written only by the step that ends
\* translate_ftbquests_from_snbt, and when that step is taken the backup
\* holds the file as it stood before the write and strings were extracted;
\* the file is read only after the copy was made; and a file without
\* extractable strings ends skipped, equal to its backup, and is never
\* written.
C25_BackupPrecedesRewrite ==
    /\ [][(snbt_file' # snbt_file \/ pc' = "done") =>
             /\ pc' = "done"
             /\ backup = snbt_file
             /\ backup' = backup
             /\ Len(targets) > 0]_vars
    /\ [](pc \notin {"backup"} => backup # << >>)
    /\ [](pc = "skipped" => /\ extracted_strings(snbt_file) = << >>
                            /\ snbt_file = backup)
    /\ [][pc = "skipped" => (pc' = "skipped" /\ snbt_file' = snbt_file)]_vars

\* C25 witness: a quest file was rewritten with a translation, and the
\* backup holds the file as it was read.
C25_Witness ==
    /\ pc = "done"
    /\ snbt_file # backup
    /\ backup \in QuestFiles
    /\ extracted_strings(backup) = targets
    /\ subst_index >= 1

\* The original texts the run was given.
OriginalTexts == {targets[i] : i \in DOMAIN targets}

\* C26: every key of the result map is one of the original texts, as it was
\* passed in; the chunk the loop holds is the chunk the split made, before
\* and after every call to the client; the chunks still concatenate to the
\* targets; and every position an accepted attempt bound is stored under the
\* original text at that position.
C26_KeysAreOriginalTexts ==
    /\ DOMAIN result_map \subseteq OriginalTexts
    /\ \A i \in DOMAIN key_order : key_order[i] \in OriginalTexts
    /\ (index >= 1 => split_target = split_targets[index])
    /\ (pc # "start" => Concat(split_targets) = targets)
    /\ \A c \in DOMAIN bound : \A p \in bound[c] :
          /\ targets[KeyAt(c, p)] = split_targets[c][p]
          /\ targets[KeyAt(c, p)] \in DOMAIN result_map

\* C26 witness: a chunk of two lines, of which the client sent both without
\* their newlines, was accepted and its texts are keys of the result map
\* with their newlines.
C26_Witness ==
    /\ ChunkOver
    /\ ended[index] = "accepted"
    /\ Len(split_target) = 2
    /\ bound[index] = {1, 2}
    /\ \A i \in {1, 2} : request_lines(split_target)[i] # split_target[i]
    /\ \A i \in {1, 2} : split_target[i] \in DOMAIN result_map
    /\ split_target[1] # split_target[2]

\* Where the first occurrence of the quoted string stands in the source
\* document, and the position behind it.
FirstAt(original) == FindFrom(backup, Quoted(original), 1)
FirstEnd(original) == FirstAt(original) + Len(Quoted(original))

\* The first occurrences of the resolved strings do not overlap.
FirstOccurrencesApart ==
    \A o1, o2 \in DOMAIN result_map :
        o1 # o2 => (FirstEnd(o1) <= FirstAt(o2) \/ FirstEnd(o2) <= FirstAt(o1))

\* By how much the substitutions for the strings of the set move what
\* stands behind them.
RECURSIVE Growth(_)
Growth(originals) ==
    IF originals = {} THEN 0
    ELSE LET o == CHOOSE x \in originals : TRUE
         IN Len(result_map[o]) - Len(o) + Growth(originals \ {o})

\* Where the first occurrence of the string stands after reassembly.
PlaceAfter(original) ==
    FirstAt(original)
    + Growth({o \in DOMAIN result_map : FirstAt(o) # 0 /\ FirstAt(o) < FirstAt(original)})

\* C27 as stated: in the file written back, the place where the first
\* occurrence of a resolved string stood holds the translation of that
\* string, for every resolved string, whenever the first occurrences of the
\* resolved strings do not overlap in the source document.
C27_SubstitutionKeepsEarlierOutput ==
    (mode = "snbt" /\ pc = "done" /\ FirstOccurrencesApart)
      => \A original \in DOMAIN result_map :
            FirstAt(original) # 0
              => OccursAt(snbt_file, Quoted(result_map[original]), PlaceAfter(original))

\* The chunks that were accepted and hold the text.
AcceptedChunksWith(text) ==
    {c \in DOMAIN split_targets : ended[c] = "accepted" /\ text \in ChunkTexts(c)}

\* The last of them.
LastAcceptedChunkWith(text) ==
    CHOOSE c \in AcceptedChunksWith(text) : \A d \in AcceptedChunksWith(text) : d <= c

\* C28 as stated: at the end of a run two keys with the same original text
\* are both in the resolved document with the same translation or both in
\* the unresolved document; and the translation of a resolved text is that
\* of the last accepted chunk that holds the text: the accepted attempt of
\* that chunk bound the text, and where that chunk is the last of the run
\* the translation is a line its answer has at a position of the text.
C28_SameTextSameOutcome ==
    pc = "done" =>
      /\ \A k1, k2 \in DOMAIN targets :
            targets[k1] = targets[k2]
              => \/ /\ k1 \in KeysOf(Resolved) /\ k2 \in KeysOf(Resolved)
                    /\ \E v \in {result_map[targets[k1]]} :
                          Holds(Resolved, k1, v) /\ Holds(Resolved, k2, v)
                 \/ /\ k1 \in KeysOf(Unresolved) /\ k2 \in KeysOf(Unresolved)
                    /\ k1 \notin KeysOf(Resolved) /\ k2 \notin KeysOf(Resolved)
      /\ \A text \in DOMAIN result_map :
            /\ AcceptedChunksWith(text) # {}
            /\ LET c == LastAcceptedChunkWith(text)
               IN /\ text \in BoundTexts(c)
                  /\ c = index =>
                        \E j \in bound[c] :
                            /\ split_target[j] = text
                            /\ result_map[text] = translated_split_target[j]

RECURSIVE LineOrigin(_, _)
LineOrigin(n, p) ==
    IF n <= Len(chunks[p]) THEN <<p, n>> ELSE LineOrigin(n - Len(chunks[p]), p + 1)

\* The parts whose translation came back.
TranslatedParts == {translated_parts_value[n][1] : n \in DOMAIN translated_parts_value}

\* C30 as stated: in translate_batch every pair the final loop zips holds an
\* original line and the translated line at the same index of the same part,
\* no line of a part whose upload failed is in a pair, and every key gets
\* the translation of a line that holds its text.
C30_PairsStayAligned ==
    (mode = "batch" /\ pc = "done") =>
      /\ \A n \in DOMAIN Zip(translated_parts_keys, translated_parts_value) :
            /\ translated_parts_value[n] = Translated(LineOrigin(n, 1)[1], LineOrigin(n, 1)[2])
            /\ LineOrigin(n, 1)[1] \in TranslatedParts
      /\ \A key \in DOMAIN result_map :
            chunks[result_map[key][1]][result_map[key][2]] = translated_map[key]

\* C31: process_jar_file replaces the jar only when the jar holds a book
\* directory with en_us files and no ja_jp files; in every other case, and on
\* every way out of the function, the path on which an entry could not be
\* read (BadZipFile) included, the jar on disk is what it was and there is
\* no file jar_path + '.new' left; before the function is left the jar on disk
\* is never written.
C31_JarReplacedOnlyWhenNeeded ==
    [][mode = "patchouli" =>
          IF pc' = "done"
          THEN /\ jar_path' # jar_path => BooksToTranslate(jar_path) # {}
               /\ (BooksToTranslate(jar_path) = {} \/ error_logged') =>
                     jar_path' = jar_path
               /\ new_jar' = << >>
          ELSE jar_path' = jar_path]_vars

====
